---- MODULE Spec2Model ----
(***************************************************************************)
(* Model of regenerate.py: the public suffix list parser                   *)
(* (get_public_suffixes), the download of the list (redownload_psl), the   *)
(* trie builder (rules_to_tree), the top-level pruning (filter_top_rules), *)
(* main's emission of the two tries, and the resolver get_domain of the    *)
(* emitted Swift template.                                                 *)
(*                                                                         *)
(* Two specifications share the variables:                                 *)
(*   Spec       main after the rule list was read (line 162): the build of *)
(*              p_suffixes / n_suffixes and calls of get_domain.  A label  *)
(*              is an atomic string here.                                  *)
(*   SpecParse  get_public_suffixes reading the rule-list file, one read   *)
(*              of the file and one line of the loop at a time, and calls  *)
(*              of redownload_psl rewriting that file, one write to the    *)
(*              file at a time, before, during or after the read.  A       *)
(*              string is a sequence of one-character strings here, so     *)
(*              that split, strip and lower are computed.                  *)
(***************************************************************************)
EXTENDS Naturals, Sequences, FiniteSets

VARIABLES pc, psl_file, f, writer, positive_public_suffixes,
          negative_public_suffixes, p_suffixes, n_suffixes, hostname, result

vars == <<pc, psl_file, f, writer, positive_public_suffixes,
          negative_public_suffixes, p_suffixes, n_suffixes, hostname, result>>

(***************************************************************************)
(* Bounds of the model.                                                    *)
(***************************************************************************)
\* total number of rules (positive and negative together) in the rule list
MaxRules == 2
\* number of dot-separated components of a hostname
MaxHostLen == 3
\* number of characters of a short rule-list file
MaxFileLen == 4
\* number of characters of a short list that redownload_psl fetches
MaxDownloadLen == 1
\* number of calls of redownload_psl, which may overlap
MaxRedownloads == 1
\* values of current_timestamp passed to redownload_psl
Timestamps == {7, 12}

(***************************************************************************)
(* Sizes of the program and of the file objects it uses.                   *)
(***************************************************************************)
\* line 24: the text file object reads the file 8192 bytes at a time
ReadSize == 8192
\* line 71: r.read(10 * 1024)
DownloadChunkSize == 10240
\* line 68: the buffer of the binary file object is as large as the file
\* system says its blocks are, or DefaultBufferSize when it does not say
BlockSize == 4096
DefaultBufferSize == 8192
BufferSizes == {BlockSize, DefaultBufferSize}

\* labels a rule is made of (the wildcard is a label of the rule text)
RuleLabels == {"ck", "www", "*"}
\* components of a hostname: "" is what two adjacent dots, or a leading or
\* trailing dot, give.  The sentinels "!" and "*" are not hostname labels.
HostLabels == {"ck", "www", "foo", ""}
\* characters of a rule-list file; every one is one byte of the file
Chars == {"a", "B", ".", "!", "/", " ", "\n"}
\* the byte of a hole, where a write starts beyond the end of the file
NUL == "NUL"

BoundedSeq(S, n) == UNION {[1..k -> S] : k \in 0..n}

\* every rule of one or two labels
RuleUniverse == {<<a>> : a \in RuleLabels} \cup (RuleLabels \X RuleLabels)

Hostnames == BoundedSeq(HostLabels, MaxHostLen) \ {<<>>}

(***************************************************************************)
(* Sequence helpers: reversed(), joined(separator: ".")                    *)
(***************************************************************************)
RECURSIVE Reverse(_)
Reverse(s) == IF s = <<>> THEN <<>> ELSE Append(Reverse(Tail(s)), Head(s))

RECURSIVE Joined(_)
Joined(s) ==
    IF s = <<>> THEN ""
    ELSE IF Len(s) = 1 THEN s[1]
    ELSE s[1] \o "." \o Joined(Tail(s))

(***************************************************************************)
(* rules_to_tree: a tree is a function from labels (and the key "!") to    *)
(* subtrees (and TRUE under "!"), as the OrderedDict of the code.          *)
(***************************************************************************)
accept_this == "!"
wildcard == "*"

EmptyDict == [k \in {} |-> TRUE]
AcceptThisDict == [k \in {accept_this} |-> TRUE]

SetItem(d, k, v) == [x \in (DOMAIN d) \cup {k} |-> IF x = k THEN v ELSE d[x]]

\* lines 80-83: labels are the rule's labels already reversed
RECURSIVE InsertRule(_, _)
InsertRule(rule_tree, labels) ==
    IF labels = <<>> THEN SetItem(rule_tree, accept_this, TRUE)
    ELSE LET label == Head(labels)
             sub == IF label \in DOMAIN rule_tree THEN rule_tree[label]
                    ELSE EmptyDict
         IN SetItem(rule_tree, label, InsertRule(sub, Tail(labels)))

RECURSIVE InsertRules(_, _)
InsertRules(tree, rules) ==
    IF rules = <<>> THEN tree
    ELSE InsertRules(InsertRule(tree, Reverse(Head(rules))), Tail(rules))

\* the mutant of rules_to_tree: the labels are inserted as the rule reads
RECURSIVE InsertRulesForward(_, _)
InsertRulesForward(tree, rules) ==
    IF rules = <<>> THEN tree
    ELSE InsertRulesForward(InsertRule(tree, Head(rules)), Tail(rules))

rules_to_tree_forward(rules) == InsertRulesForward(EmptyDict, rules)

rules_to_tree(rules) == InsertRules(EmptyDict, rules)

filter_top_rules(d) ==
    [k \in {x \in DOMAIN d : d[x] # AcceptThisDict} |-> d[k]]

(***************************************************************************)
(* get_domain (the Swift template, lines 213-290).  Its outcome is the     *)
(* value returned (a string, or Nil for Swift's nil) and the return        *)
(* statement that produced it: EmptyLabel is line 226, IsPublicSuffix line *)
(* 275, NoMatch line 286, RegistrableDomain lines 245, 280 and 289.        *)
(***************************************************************************)
Nil == "nil"

ReturnNil(kind) == [kind |-> kind, value |-> Nil]
ReturnDomain(s) == [kind |-> "RegistrableDomain", value |-> s]

\* lines 230 and 259, over the rules of accepted_rules
AnyAcceptThis(accepted_rules) ==
    \E i \in DOMAIN accepted_rules : accept_this \in DOMAIN accepted_rules[i]

\* lines 233-238 and 262-267: new_accepted_rules, in the order of the appends
RECURSIVE NewAcceptedRules(_, _)
NewAcceptedRules(accepted_rules, label) ==
    IF accepted_rules = <<>> THEN <<>>
    ELSE LET rule == Head(accepted_rules)
             w == IF wildcard \in DOMAIN rule THEN <<rule[wildcard]>> ELSE <<>>
             l == IF label \in DOMAIN rule THEN <<rule[label]>> ELSE <<>>
         IN w \o l \o NewAcceptedRules(Tail(accepted_rules), label)

\* mutant of NegativeLoop: the scan stops at the first step that finds a
\* terminal marker, before the label of that step is looked at
RECURSIVE NegativeLoopStop(_, _, _, _)
NegativeLoopStop(labels, accepted_rules, longest, this_longest) ==
    IF labels = <<>> THEN [empty_label |-> FALSE, longest |-> longest]
    ELSE IF AnyAcceptThis(accepted_rules)
         THEN [empty_label |-> FALSE, longest |-> this_longest]
    ELSE IF Head(labels) = "" THEN [empty_label |-> TRUE, longest |-> longest]
    ELSE NegativeLoopStop(Tail(labels),
                          NewAcceptedRules(accepted_rules, Head(labels)),
                          longest, Append(this_longest, Head(labels)))

\* mutant of NegativeLoop: only the first match is recorded
RECURSIVE NegativeLoopFirst(_, _, _, _)
NegativeLoopFirst(labels, accepted_rules, longest, this_longest) ==
    IF labels = <<>> THEN [empty_label |-> FALSE, longest |-> longest]
    ELSE IF Head(labels) = "" THEN [empty_label |-> TRUE, longest |-> longest]
    ELSE NegativeLoopFirst(Tail(labels),
             NewAcceptedRules(accepted_rules, Head(labels)),
             IF AnyAcceptThis(accepted_rules) /\ longest = <<>>
             THEN this_longest ELSE longest,
             Append(this_longest, Head(labels)))

\* mutant of NegativeLoop: the label is appended before the match is
\* recorded, as the positive loop does
RECURSIVE NegativeLoopAppendFirst(_, _, _, _)
NegativeLoopAppendFirst(labels, accepted_rules, longest, this_longest) ==
    IF labels = <<>> THEN [empty_label |-> FALSE, longest |-> longest]
    ELSE IF Head(labels) = "" THEN [empty_label |-> TRUE, longest |-> longest]
    ELSE NegativeLoopAppendFirst(Tail(labels),
             NewAcceptedRules(accepted_rules, Head(labels)),
             IF AnyAcceptThis(accepted_rules)
             THEN Append(this_longest, Head(labels)) ELSE longest,
             Append(this_longest, Head(labels)))

\* lines 224-242: the loop over the labels that checks the negative rules.
\* labels are the labels not yet consumed, TLD first.
RECURSIVE NegativeLoop(_, _, _, _)
NegativeLoop(labels, accepted_rules, longest, this_longest) ==
    IF labels = <<>> THEN [empty_label |-> FALSE, longest |-> longest]
    ELSE IF Head(labels) = "" THEN [empty_label |-> TRUE, longest |-> longest]
    ELSE NegativeLoop(Tail(labels),
                      NewAcceptedRules(accepted_rules, Head(labels)),
                      IF AnyAcceptThis(accepted_rules)
                      THEN this_longest ELSE longest,
                      Append(this_longest, Head(labels)))

\* mutant of PositiveLoop: the match is recorded before the label is
\* appended, as the negative loop does
RECURSIVE PositiveLoopAppendLast(_, _, _, _)
PositiveLoopAppendLast(labels, accepted_rules, longest, this_longest) ==
    IF labels = <<>>
    THEN [accepted_rules |-> accepted_rules, longest |-> longest]
    ELSE PositiveLoopAppendLast(Tail(labels),
             NewAcceptedRules(accepted_rules, Head(labels)),
             IF AnyAcceptThis(accepted_rules) THEN this_longest ELSE longest,
             Append(this_longest, Head(labels)))

\* lines 255-270: the loop over the labels that checks the positive rules
RECURSIVE PositiveLoop(_, _, _, _)
PositiveLoop(labels, accepted_rules, longest, this_longest) ==
    IF labels = <<>>
    THEN [accepted_rules |-> accepted_rules, longest |-> longest]
    ELSE PositiveLoop(Tail(labels),
             NewAcceptedRules(accepted_rules, Head(labels)),
             IF AnyAcceptThis(accepted_rules)
             THEN Append(this_longest, Head(labels)) ELSE longest,
             Append(this_longest, Head(labels)))

\* host is the list of components of the hostname, left to right
\* (hostname.components(separatedBy: ".")); p and n are the emitted
\* p_suffixes and n_suffixes.
get_domain(host, p, n) ==
    LET labels == Reverse(host)
        neg == NegativeLoop(labels, <<n>>, <<>>, <<>>)
        pos == PositiveLoop(labels, <<p>>, <<>>, <<>>)
    IN  IF neg.empty_label THEN ReturnNil("EmptyLabel")
        ELSE IF neg.longest # <<>>
             THEN ReturnDomain(Joined(Reverse(neg.longest)))
        ELSE IF AnyAcceptThis(pos.accepted_rules)
             THEN ReturnNil("IsPublicSuffix")
        ELSE IF pos.longest # <<>>
             THEN ReturnDomain(Joined(Reverse(pos.longest)))
        ELSE IF Len(labels) < 2 THEN ReturnNil("NoMatch")
        ELSE ReturnDomain(labels[2] \o "." \o labels[1])

(***************************************************************************)
(* Spec: main from line 162 on, then calls of get_domain.                  *)
(***************************************************************************)
NoResult == [kind |-> "none", value |-> Nil]

\* the file object of get_public_suffixes before line 23 opened it: buffer
\* holds the characters read from the file and not yet yielded, pos is the
\* offset in the file up to which it was read, yielded the lines that the
\* loop of line 24 was given
NotOpen == [buffer |-> <<>>, pos |-> 0, yielded |-> <<>>]

\* a call of redownload_psl that has not begun: r is the response of the
\* server, the part of it not yet read.  Once the call runs: size is the
\* size of the buffer of its file object, buffer the bytes written to the
\* file object and not yet to the file, pos the offset of the file object
\* in the file, data the argument of the f.write in progress.
IdleWriter == [pc |-> "idle", size |-> 0, buffer |-> <<>>, pos |-> 0,
               data |-> <<>>, r |-> <<>>]

\* the state after get_public_suffixes returned (line 162)
Init ==
    /\ pc = "parsed"
    /\ psl_file = <<>>
    /\ f = NotOpen
    /\ writer = [w \in 1..MaxRedownloads |-> IdleWriter]
    /\ positive_public_suffixes \in BoundedSeq(RuleUniverse, MaxRules)
    /\ negative_public_suffixes \in BoundedSeq(RuleUniverse, MaxRules)
    /\ Len(positive_public_suffixes) + Len(negative_public_suffixes) <= MaxRules
    /\ p_suffixes = EmptyDict
    /\ n_suffixes = EmptyDict
    /\ hostname = <<>>
    /\ result = NoResult

\* lines 202 and 205: the two tries handed to make_swift_dict
\* (make_swift_dict writes each tree out as a Swift dictionary of the same
\* keys and subtrees; p_suffixes and n_suffixes stand for the trees)
EmitTries ==
    /\ pc = "parsed"
    /\ p_suffixes' = filter_top_rules(rules_to_tree(positive_public_suffixes))
    /\ n_suffixes' = filter_top_rules(rules_to_tree(negative_public_suffixes))
    /\ pc' = "emitted"
    /\ UNCHANGED <<psl_file, f, writer, positive_public_suffixes,
                   negative_public_suffixes, hostname, result>>

\* a call of the generated get_domain
GetDomain ==
    /\ pc = "emitted"
    /\ \E h \in Hostnames :
          /\ hostname' = h
          /\ result' = get_domain(h, p_suffixes, n_suffixes)
    /\ pc' = "resolved"
    /\ UNCHANGED <<psl_file, f, writer, positive_public_suffixes,
                   negative_public_suffixes, p_suffixes, n_suffixes>>

Next == EmitTries \/ GetDomain

Spec == Init /\ [][Next]_vars


(***************************************************************************)
(* SpecParse: get_public_suffixes (lines 20-37) and redownload_psl (lines  *)
(* 65-74).  psl_file is the content of the file, a sequence of characters, *)
(* each one byte.  A rule is a sequence of labels, each a sequence of      *)
(* characters.                                                             *)
(***************************************************************************)
Whitespace == {" ", "\n"}

Least(a, b) == IF a <= b THEN a ELSE b
Greatest(a, b) == IF a >= b THEN a ELSE b

Repeat(c, n) == [i \in 1..n |-> c]

\* the first n elements of s, and the rest
Take(s, n) == SubSeq(s, 1, Least(n, Len(s)))
Drop(s, n) == SubSeq(s, Least(n, Len(s)) + 1, Len(s))

\* the index of the first element of s that is in S, that is not in S, and
\* of the last that is not in S
FirstIn(s, S) ==
    CHOOSE i \in DOMAIN s : s[i] \in S /\ \A j \in 1..(i - 1) : s[j] \notin S
FirstNotIn(s, S) ==
    CHOOSE i \in DOMAIN s : s[i] \notin S /\ \A j \in 1..(i - 1) : s[j] \in S
LastNotIn(s, S) ==
    CHOOSE i \in DOMAIN s :
        s[i] \notin S /\ \A j \in (i + 1)..Len(s) : s[j] \in S

\* a file that one read does not take whole: a comment line one byte
\* shorter than a read, and an exception rule that begins in the last byte
\* of the first read
BigFile ==
    <<"/", "/">> \o Repeat("a", ReadSize - 4)
                 \o <<"\n", "!", "B", ".", "a", "\n">>

\* a list that is fetched in two chunks: a line that ends just after the
\* offset of a second read of the file, and a line that ends with the
\* second chunk
BigDownload ==
    Repeat("a", ReadSize) \o <<"\n">>
        \o Repeat("B", DownloadChunkSize - ReadSize - 1) \o <<".", "\n">>

\* a list that fits in the larger buffer of a file object and is as large
\* as the smaller
MidDownload == Repeat("a", BlockSize - 1) \o <<"\n">>

\* the inputs of a run: the file as get_public_suffixes finds it, and the
\* list that the server sends to each call of redownload_psl.  Short files
\* with short lists, and the large file and the large lists with each
\* other and with nothing.
ShortInputs ==
    {[file |-> x, response |-> d] :
        x \in BoundedSeq(Chars, MaxFileLen),
        d \in [1..MaxRedownloads -> BoundedSeq(Chars, MaxDownloadLen)]}

LargeInputs ==
    {[file |-> x, response |-> [w \in 1..MaxRedownloads |-> d]] :
        x \in {<<>>, BigFile}, d \in {<<>>, MidDownload, BigDownload}}

Inputs == ShortInputs \cup LargeInputs

\* what a read of at most n bytes at offset pos returns
ReadAt(file, pos, n) == SubSeq(file, pos + 1, Least(pos + n, Len(file)))

\* the file after data was written at offset pos: bytes between the end of
\* the file and pos are a hole
WriteAt(file, pos, data) ==
    IF data = <<>> THEN file
    ELSE [i \in 1..Greatest(Len(file), pos + Len(data)) |->
             IF i > pos /\ i <= pos + Len(data) THEN data[i - pos]
             ELSE IF i <= Len(file) THEN file[i]
             ELSE NUL]

\* line 24, the iteration over the file: a line is in the buffer, or the
\* buffer is read on from the file as it is now
HasNewline(s) == \E i \in DOMAIN s : s[i] = "\n"

AtEndOfFile == ReadAt(psl_file, f.pos, ReadSize) = <<>>

HasLine == HasNewline(f.buffer) \/ (f.buffer # <<>> /\ AtEndOfFile)

\* the line the loop body works on (with its line end, if it has one), and
\* the file object after it was taken
NextLine ==
    IF HasNewline(f.buffer) THEN Take(f.buffer, FirstIn(f.buffer, {"\n"}))
    ELSE f.buffer

Taken ==
    [f EXCEPT !.buffer = Drop(@, Len(NextLine)),
              !.yielded = Append(@, NextLine)]

\* str.split(maxsplit=1), line 25: the first whitespace-delimited token,
\* or <<>> when the line has none (the list is empty, line 26)
LStripWhitespace(s) ==
    IF \A i \in DOMAIN s : s[i] \in Whitespace THEN <<>>
    ELSE Drop(s, FirstNotIn(s, Whitespace) - 1)

UpToWhitespace(s) ==
    IF \E i \in DOMAIN s : s[i] \in Whitespace
    THEN Take(s, FirstIn(s, Whitespace) - 1)
    ELSE s

FirstToken(line) == UpToWhitespace(LStripWhitespace(line))

\* str.startswith
StartsWith(s, prefix) ==
    /\ Len(s) >= Len(prefix)
    /\ SubSeq(s, 1, Len(prefix)) = prefix

\* str.strip('.')
StripDots(s) ==
    IF \A i \in DOMAIN s : s[i] = "." THEN <<>>
    ELSE SubSeq(s, FirstNotIn(s, {"."}), LastNotIn(s, {"."}))

\* str.lower
LowerChar(c) == IF c = "B" THEN "b" ELSE c
Lower(s) == [i \in DOMAIN s |-> LowerChar(s[i])]

\* str.split('.')
RECURSIVE SplitDots(_)
SplitDots(s) ==
    IF \E i \in DOMAIN s : s[i] = "."
    THEN <<Take(s, FirstIn(s, {"."}) - 1)>>
             \o SplitDots(Drop(s, FirstIn(s, {"."})))
    ELSE <<s>>

\* line 36: line.strip('.').lower().split('.')
RuleOfToken(token) == SplitDots(Lower(StripDots(token)))

\* lines 26-30: the line is skipped
IsSkipped(line) ==
    \/ FirstToken(line) = <<>>
    \/ StartsWith(FirstToken(line), <<"/", "/">>)

\* str(int(current_timestamp)), line 67
DecimalDigits == <<"0", "1", "2", "3", "4", "5", "6", "7", "8", "9">>

RECURSIVE Str(_)
Str(n) ==
    IF n < 10 THEN <<DecimalDigits[n + 1]>>
    ELSE Append(Str(n \div 10), DecimalDigits[(n % 10) + 1])

\* line 67
Header(current_timestamp) ==
    <<"/", "/", " ">> \o Str(current_timestamp) \o <<"\n">>

\* get_public_suffixes is entered (line 20) with the file as it is on disk
InitParse ==
    /\ pc = "start"
    /\ \E input \in Inputs :
          /\ psl_file = input.file
          /\ writer = [w \in 1..MaxRedownloads |->
                          [IdleWriter EXCEPT !.r = input.response[w]]]
    /\ f = NotOpen
    /\ positive_public_suffixes = <<>>
    /\ negative_public_suffixes = <<>>
    /\ p_suffixes = EmptyDict
    /\ n_suffixes = EmptyDict
    /\ hostname = <<>>
    /\ result = NoResult

\* line 23: nothing is read yet
OpenFile ==
    /\ pc = "start"
    /\ pc' = "reading"
    /\ UNCHANGED <<psl_file, f, writer, positive_public_suffixes,
                   negative_public_suffixes, p_suffixes, n_suffixes,
                   hostname, result>>

\* line 24: no line is complete in the buffer, and one read of the file at
\* the offset adds to it
ReadChunk ==
    /\ pc = "reading"
    /\ ~HasNewline(f.buffer)
    /\ ~AtEndOfFile
    /\ f' = [f EXCEPT !.buffer = @ \o ReadAt(psl_file, f.pos, ReadSize),
                      !.pos = @ + Len(ReadAt(psl_file, f.pos, ReadSize))]
    /\ UNCHANGED <<pc, psl_file, writer, positive_public_suffixes,
                   negative_public_suffixes, p_suffixes, n_suffixes,
                   hostname, result>>

\* lines 24-30: a blank line or a comment
SkipLine ==
    /\ pc = "reading"
    /\ HasLine
    /\ IsSkipped(NextLine)
    /\ f' = Taken
    /\ UNCHANGED <<pc, psl_file, writer, positive_public_suffixes,
                   negative_public_suffixes, p_suffixes, n_suffixes,
                   hostname, result>>

\* lines 31-33 and 36: an exception rule
AppendNegative ==
    /\ pc = "reading"
    /\ HasLine
    /\ ~IsSkipped(NextLine)
    /\ StartsWith(FirstToken(NextLine), <<"!">>)
    /\ negative_public_suffixes' =
          Append(negative_public_suffixes,
                 RuleOfToken(Tail(FirstToken(NextLine))))
    /\ f' = Taken
    /\ UNCHANGED <<pc, psl_file, writer, positive_public_suffixes,
                   p_suffixes, n_suffixes, hostname, result>>

\* lines 34-36: a positive rule
AppendPositive ==
    /\ pc = "reading"
    /\ HasLine
    /\ ~IsSkipped(NextLine)
    /\ ~StartsWith(FirstToken(NextLine), <<"!">>)
    /\ positive_public_suffixes' =
          Append(positive_public_suffixes,
                 RuleOfToken(FirstToken(NextLine)))
    /\ f' = Taken
    /\ UNCHANGED <<pc, psl_file, writer, negative_public_suffixes,
                   p_suffixes, n_suffixes, hostname, result>>

\* line 37: the buffer is empty and the read at the offset returned
\* nothing, the loop is over
ReturnSuffixes ==
    /\ pc = "reading"
    /\ f.buffer = <<>>
    /\ AtEndOfFile
    /\ pc' = "returned"
    /\ UNCHANGED <<psl_file, f, writer, positive_public_suffixes,
                   negative_public_suffixes, p_suffixes, n_suffixes,
                   hostname, result>>

\* lines 71-73, after an f.write returned: the next chunk of the response,
\* or the end of the loop when there is none
AfterWrite(wr) ==
    IF wr.r = <<>> THEN [wr EXCEPT !.pc = "close", !.data = <<>>]
    ELSE [wr EXCEPT !.pc = "write",
                    !.data = Take(wr.r, DownloadChunkSize),
                    !.r = Drop(wr.r, DownloadChunkSize)]

\* redownload_psl, lines 65-68: the response r is there and
\* open(psl_file, 'wb') empties the file.  main calls it before
\* get_public_suffixes (lines 150-152); another run of the program on the
\* same file can call it at any moment of this one's read, or after it.
\* The calls begin in the order of their numbers.
RedownloadOpen(w) ==
    /\ writer[w].pc = "idle"
    /\ IF w = 1 THEN TRUE ELSE writer[w - 1].pc # "idle"
    /\ psl_file' = <<>>
    /\ \E current_timestamp \in Timestamps :
          \E size \in BufferSizes :
             writer' = [writer EXCEPT ![w] =
                           [writer[w] EXCEPT
                               !.pc = "write", !.size = size,
                               !.data = Header(current_timestamp)]]
    /\ UNCHANGED <<pc, f, positive_public_suffixes,
                   negative_public_suffixes, p_suffixes, n_suffixes,
                   hostname, result>>

\* f.write of lines 69 and 74, when the data fit in the buffer of the file
\* object: nothing reaches the file
WriteBuffered(w) ==
    /\ writer[w].pc = "write"
    /\ Len(writer[w].data) <= writer[w].size - Len(writer[w].buffer)
    /\ writer' = [writer EXCEPT ![w] =
                     AfterWrite([writer[w] EXCEPT !.buffer = @ \o writer[w].data])]
    /\ UNCHANGED <<pc, psl_file, f, positive_public_suffixes,
                   negative_public_suffixes, p_suffixes, n_suffixes,
                   hostname, result>>

\* f.write of lines 69 and 74, when the data do not fit: first the buffer
\* is written to the file
WriteFlush(w) ==
    /\ writer[w].pc = "write"
    /\ Len(writer[w].data) > writer[w].size - Len(writer[w].buffer)
    /\ psl_file' = WriteAt(psl_file, writer[w].pos, writer[w].buffer)
    /\ writer' = [writer EXCEPT ![w] =
                     [writer[w] EXCEPT !.pc = "flushed",
                                       !.pos = @ + Len(writer[w].buffer),
                                       !.buffer = <<>>]]
    /\ UNCHANGED <<pc, f, positive_public_suffixes,
                   negative_public_suffixes, p_suffixes, n_suffixes,
                   hostname, result>>

\* f.write of lines 69 and 74, after the buffer was written: data larger
\* than the buffer go to the file, other data stay in the buffer
WriteRaw(w) ==
    /\ writer[w].pc = "flushed"
    /\ IF Len(writer[w].data) > writer[w].size
       THEN /\ psl_file' = WriteAt(psl_file, writer[w].pos, writer[w].data)
            /\ writer' = [writer EXCEPT ![w] =
                             AfterWrite([writer[w] EXCEPT
                                            !.pos = @ + Len(writer[w].data)])]
       ELSE /\ psl_file' = psl_file
            /\ writer' = [writer EXCEPT ![w] =
                             AfterWrite([writer[w] EXCEPT
                                            !.buffer = writer[w].data])]
    /\ UNCHANGED <<pc, f, positive_public_suffixes,
                   negative_public_suffixes, p_suffixes, n_suffixes,
                   hostname, result>>

\* the end of the with block of line 68: the buffer is written to the file
\* and the file is closed
CloseFile(w) ==
    /\ writer[w].pc = "close"
    /\ psl_file' = WriteAt(psl_file, writer[w].pos, writer[w].buffer)
    /\ writer' = [writer EXCEPT ![w] = [IdleWriter EXCEPT !.pc = "closed"]]
    /\ UNCHANGED <<pc, f, positive_public_suffixes,
                   negative_public_suffixes, p_suffixes, n_suffixes,
                   hostname, result>>

NextParse ==
    \/ OpenFile
    \/ ReadChunk
    \/ SkipLine
    \/ AppendNegative
    \/ AppendPositive
    \/ ReturnSuffixes
    \/ \E w \in 1..MaxRedownloads : RedownloadOpen(w)
    \/ \E w \in 1..MaxRedownloads : WriteBuffered(w)
    \/ \E w \in 1..MaxRedownloads : WriteFlush(w)
    \/ \E w \in 1..MaxRedownloads : WriteRaw(w)
    \/ \E w \in 1..MaxRedownloads : CloseFile(w)

SpecParse == InitParse /\ [][NextParse]_vars

(***************************************************************************)
(* What the claims speak of, stated on the rule lists and the hostname,    *)
(* not on the tries.                                                       *)
(***************************************************************************)
Range(s) == {s[i] : i \in DOMAIN s}

NoEmptyLabel(h) == \A i \in DOMAIN h : h[i] # ""

\* the last k labels of h, left to right
Suffix(h, k) == SubSeq(h, Len(h) - k + 1, Len(h))

\* the rule matches the labels one for one, a wildcard matching any label
RuleMatches(rule, labels) ==
    /\ Len(rule) = Len(labels)
    /\ \A i \in DOMAIN rule : rule[i] = wildcard \/ rule[i] = labels[i]

\* the lengths of the suffixes of h that a rule of the set matches
MatchLengths(rules, h) ==
    {k \in 1..Len(h) : \E r \in rules : RuleMatches(r, Suffix(h, k))}

ProperMatchLengths(rules, h) == MatchLengths(rules, h) \ {Len(h)}

Max(S) == CHOOSE x \in S : \A y \in S : y <= x
Min(S) == CHOOSE x \in S : \A y \in S : x <= y

\* the rules of a list that are still complete rules of the tree after
\* filter_top_rules: a single-label rule stays only when its root entry
\* has other children, that is when a longer rule ends in the same label
KeptRules(rules) ==
    {r \in Range(rules) :
        \/ Len(r) > 1
        \/ \E q \in Range(rules) : Len(q) > 1 /\ q[Len(q)] = r[1]}

HasWildcard(rule) == \E i \in DOMAIN rule : rule[i] = wildcard

Resolved == pc = "resolved"

(***************************************************************************)
(* The claims.                                                             *)
(***************************************************************************)

\* C1 (as claimed): for a hostname with no empty label, if a suffix of the
\* hostname, proper or the whole hostname, matches a negative rule of the
\* negative trie, get_domain returns the registrable domain of the
\* exception check, and the positive trie has no influence on the result.
C1_ExceptionPrecedence ==
    (/\ Resolved
     /\ NoEmptyLabel(hostname)
     /\ MatchLengths(KeptRules(negative_public_suffixes), hostname) # {})
    => /\ result.kind = "RegistrableDomain"
       /\ \E k \in MatchLengths(KeptRules(negative_public_suffixes), hostname) :
             result.value = Joined(Suffix(hostname, k))
       /\ result = get_domain(hostname, EmptyDict, n_suffixes)

\* C2 (as claimed): get_domain against the pruned positive trie returns the
\* same outcome, the same string or the same failure classification, as
\* against the unpruned positive trie of rules_to_tree.
C2_PruningEquivalence ==
    Resolved =>
        result = get_domain(hostname, rules_to_tree(positive_public_suffixes),
                            n_suffixes)

\* the hostname is L.R for a positive rule R without a wildcard and a
\* non-empty label L (the labels of R are non-empty, as labels are)
IsLabelPlusRule(h) ==
    /\ Len(h) >= 2
    /\ NoEmptyLabel(h)
    /\ \E R \in Range(positive_public_suffixes) :
          ~HasWildcard(R) /\ Tail(h) = R

\* C3 (as claimed): for a positive rule R without a wildcard, in any rule
\* set containing R, and a non-empty label L, the hostname L.R resolves to
\* exactly L.R.
C3_LabelPlusRule ==
    (Resolved /\ IsLabelPlusRule(hostname))
    => result = ReturnDomain(Joined(hostname))

\* C3 (amended): the hostname L.R resolves to exactly L.R unless a negative
\* rule of the emitted negative trie matches a proper suffix of L.R (the
\* longest such suffix is returned instead) or a positive rule matches the
\* whole of L.R (IsPublicSuffix is returned instead).
C3_LabelPlusRuleAmended ==
    (Resolved /\ IsLabelPlusRule(hostname))
    => LET exc == ProperMatchLengths(KeptRules(negative_public_suffixes),
                                     hostname)
           whole == \E r \in Range(positive_public_suffixes) :
                        RuleMatches(r, hostname)
       IN  IF exc # {}
           THEN result = ReturnDomain(Joined(Suffix(hostname, Max(exc))))
           ELSE IF whole THEN result = ReturnNil("IsPublicSuffix")
           ELSE result = ReturnDomain(Joined(hostname))

\* C3 witness: foo.www.ck resolved to itself with the rule www.ck in a
\* list of two positive rules
C3_Witness ==
    /\ Resolved
    /\ IsLabelPlusRule(hostname)
    /\ hostname = <<"foo", "www", "ck">>
    /\ Len(positive_public_suffixes) = 2
    /\ result = ReturnDomain("foo.www.ck")

\* C4 (as claimed): a hostname equal to a positive rule, in a list without
\* wildcards, a single-label rule included, resolves to IsPublicSuffix
\* against the tries that main emits.
C4_BareRuleIsPublicSuffix ==
    (/\ Resolved
     /\ hostname \in Range(positive_public_suffixes)
     /\ \A r \in Range(positive_public_suffixes) : ~HasWildcard(r))
    => result = ReturnNil("IsPublicSuffix")

IsCkScenario ==
    /\ Resolved
    /\ <<"*", "ck">> \in Range(positive_public_suffixes)
    /\ <<"www", "ck">> \in Range(negative_public_suffixes)
    /\ hostname = <<"foo", "www", "ck">>

\* C5 (as claimed): with the positive rule *.ck and the negative rule
\* !www.ck, foo.www.ck resolves to foo.www.ck.
C5_FooWwwCk == IsCkScenario => result = ReturnDomain("foo.www.ck")

\* C5 (amended): with the positive rule *.ck and the negative rule !www.ck,
\* foo.www.ck resolves to www.ck, the labels of the exception rule.
C5_FooWwwCkAmended == IsCkScenario => result = ReturnDomain("www.ck")

\* C5 witness: the scenario was resolved and gave a registrable domain
C5_Witness == IsCkScenario /\ result.kind = "RegistrableDomain"

HasEmptyLabel(h) == \E i \in DOMAIN h : h[i] = ""

\* C6: a hostname with an empty label at any position resolves to
\* EmptyLabel, against the emitted tries and against the unpruned ones,
\* whatever rule matches the labels right of the empty label.
C6_EmptyLabel ==
    (Resolved /\ HasEmptyLabel(hostname))
    => /\ result = ReturnNil("EmptyLabel")
       /\ get_domain(hostname, rules_to_tree(positive_public_suffixes),
                     rules_to_tree(negative_public_suffixes))
             = ReturnNil("EmptyLabel")

\* C6 witness: an empty label with an exception rule without wildcards of
\* the negative trie matching labels to its right, resolved to EmptyLabel
C6_Witness ==
    /\ Resolved
    /\ result.kind = "EmptyLabel"
    /\ \A r \in Range(negative_public_suffixes) : ~HasWildcard(r)
    /\ \E i \in DOMAIN hostname :
          /\ hostname[i] = ""
          /\ \E k \in 1..(Len(hostname) - i) :
                \E r \in KeptRules(negative_public_suffixes) :
                    RuleMatches(r, Suffix(hostname, k))

\* the negative loop recorded nothing for the hostname
NoExceptionRecorded(h) ==
    NegativeLoop(Reverse(h), <<n_suffixes>>, <<>>, <<>>).longest = <<>>

IsPositiveMatchCase(h) ==
    /\ NoEmptyLabel(h)
    /\ NoExceptionRecorded(h)
    /\ ~\E r \in Range(positive_public_suffixes) : RuleMatches(r, h)
    /\ ProperMatchLengths(Range(positive_public_suffixes), h) # {}

\* C8: with no empty label, no exception match recorded and the hostname
\* not wholly a public suffix, if a positive rule matches a proper suffix,
\* the result is the last k+1 labels, k the length of the longest such rule.
C8_PositiveLongestMatch ==
    (Resolved /\ IsPositiveMatchCase(hostname))
    => result = ReturnDomain(Joined(Suffix(hostname,
           Max(ProperMatchLengths(Range(positive_public_suffixes),
                                  hostname)) + 1)))

\* C8 witness: two positive rules without wildcards, of different lengths,
\* match proper suffixes of the resolved hostname
C8_Witness ==
    /\ Resolved
    /\ IsPositiveMatchCase(hostname)
    /\ \A r \in Range(positive_public_suffixes) : ~HasWildcard(r)
    /\ Cardinality(ProperMatchLengths(Range(positive_public_suffixes),
                                      hostname)) >= 2
    /\ result.kind = "RegistrableDomain"

IsTwoExceptionCase(h) ==
    /\ NoEmptyLabel(h)
    /\ Cardinality(ProperMatchLengths(KeptRules(negative_public_suffixes),
                                      h)) >= 2

\* C9 (as claimed): the exception phase stops at the first match, so when
\* negative rules match proper suffixes of different lengths the result is
\* the shortest matching suffix.
C9_ShortestExceptionWins ==
    (Resolved /\ IsTwoExceptionCase(hostname))
    => result = ReturnDomain(Joined(Suffix(hostname,
           Min(ProperMatchLengths(KeptRules(negative_public_suffixes),
                                  hostname)))))

\* C9 (amended): the exception phase scans every label and each later match
\* replaces the recorded one, so when negative rules of the negative trie
\* match proper suffixes of different lengths the result is the longest
\* matching suffix.
C9_LongestExceptionWins ==
    (/\ Resolved
     /\ NoEmptyLabel(hostname)
     /\ ProperMatchLengths(KeptRules(negative_public_suffixes),
                           hostname) # {})
    => result = ReturnDomain(Joined(Suffix(hostname,
           Max(ProperMatchLengths(KeptRules(negative_public_suffixes),
                                  hostname)))))

\* C9 witness: two negative rules without wildcards matched proper suffixes
\* of different lengths of the resolved hostname
C9_Witness ==
    /\ Resolved
    /\ IsTwoExceptionCase(hostname)
    /\ \A r \in Range(negative_public_suffixes) : ~HasWildcard(r)
    /\ result.kind = "RegistrableDomain"

\* C10 (as claimed): pruning removes from the positive trie only the root
\* entries whose subtree is exactly one terminal marker, and the negative
\* trie handed to the emitter is rules_to_tree(negative rules).
C10_PruningScope ==
    pc \in {"emitted", "resolved"}
    => LET t == rules_to_tree(positive_public_suffixes)
       IN  /\ DOMAIN p_suffixes = {k \in DOMAIN t : t[k] # AcceptThisDict}
           /\ \A k \in DOMAIN p_suffixes : p_suffixes[k] = t[k]
           /\ n_suffixes = rules_to_tree(negative_public_suffixes)

\* a label of the data model: non-empty, lowercase, without a dot
IsLabel(l) == l # <<>> /\ \A i \in DOMAIN l : l[i] \notin {".", "B"}

IsRule(r) == Len(r) >= 1 /\ \A i \in DOMAIN r : IsLabel(r[i])

\* the token reduces to nothing once the exception marker and the leading
\* and trailing dots are removed
ReducesToNothing(token) ==
    StripDots(IF StartsWith(token, <<"!">>) THEN Tail(token) ELSE token) = <<>>

\* C7 (as claimed): every rule returned has at least one label and only
\* non-empty lowercase labels without a dot; of the lines read, blank
\* lines, comment lines and lines whose token reduces to nothing produce no
\* rule.
C7_ParserInvariant ==
    /\ \A r \in Range(positive_public_suffixes)
              \cup Range(negative_public_suffixes) : IsRule(r)
    /\ pc = "returned" =>
          Len(positive_public_suffixes) + Len(negative_public_suffixes)
             = Cardinality({i \in DOMAIN f.yielded :
                               /\ ~IsSkipped(f.yielded[i])
                               /\ ~ReducesToNothing(FirstToken(f.yielded[i]))})

====
